---------------------------- MODULE Spec2Model ----------------------------
(***************************************************************************)
(* Model of scripts/1-fetch/doaj_fetch.py: the paginated fetch loop of     *)
(* process_journals, the classification done by extract_license_type and   *)
(* the four counter tables the loop accumulates.                           *)
(*                                                                         *)
(* A journal record is modelled by its bibjson mapping: a function whose   *)
(* DOMAIN holds the keys that are present ("license", "subject",           *)
(* "oa_start", "language").  A Counter is a function whose DOMAIN holds    *)
(* the keys incremented so far; a defaultdict(Counter) is a function from  *)
(* the outer keys touched so far to such Counters.                         *)
(***************************************************************************)
EXTENDS Integers, Sequences, FiniteSets, TLC

VARIABLES
    limit,            \* args.limit
    license_counts,   \* Counter: license type -> count
    subject_counts,   \* defaultdict(Counter): license type -> "code|term" -> count
    language_counts,  \* defaultdict(Counter): license type -> language code -> count
    year_counts,      \* defaultdict(Counter): license type -> year string -> count
    total_processed,  \* records counted so far
    page,             \* index of the next page to request
    remaining,        \* records of the current page not yet iterated over
    journal,          \* bibjson of the record last taken into the loop body
    classified,       \* license_type: result of the last extract_license_type call
    last_params,      \* params of the last session.get call
    info_logs,        \* LOGGER.info calls of query_doaj and process_journals
    enable_save,      \* args.enable_save
    files,            \* the four count files: name -> content
    provenance_data,  \* the mapping query_doaj builds for the provenance file
    provenance_file,  \* content of the provenance file
    warnings,         \* LOGGER.warning calls of query_doaj
    qpc,              \* position in main and query_doaj
    write_errors,     \* history: writes to an output file that raised
    pc,               \* "while" | "for" | "return" | "done"
    ret,              \* the tuple process_journals returned
    requests,         \* history: number of session.get calls made
    delays,           \* history: time.sleep calls since the last session.get
    pulled,           \* history: records that entered the loop body
    seen,             \* history: classification -> records with license info pulled
    subject_entries,  \* history: license type -> subject entries with code and term
    ended,            \* history: why the while loop was left
    prov_attempts,    \* history: attempts to write the provenance file
    scenario          \* history: position in the end-to-end scenario, -1 when off it

tables == <<license_counts, subject_counts, language_counts, year_counts>>

\* what main and query_doaj hold outside process_journals
caller == <<enable_save, files, provenance_data, provenance_file, warnings,
            qpc, prov_attempts, write_errors>>

vars == <<limit, license_counts, subject_counts, language_counts, year_counts,
          total_processed, page, remaining, journal, pc, ret, requests,
          delays, pulled, seen, subject_entries, ended, scenario,
          classified, last_params, info_logs, enable_save, files,
          provenance_data, provenance_file, warnings, qpc, prov_attempts,
          write_errors>>

---------------------------------------------------------------------------
(* Bounds of the model *)

MaxLimit == 3      \* budgets -1 .. MaxLimit
MaxPages == 3      \* the source holds at most MaxPages non-empty pages
MaxPageLen == 2    \* records per page of the source
LivePageCap == 2   \* observation horizon of the endless source
LiveMaxLimit == 2  \* budgets -1 .. LiveMaxLimit of the endless source
MaxDescriptors == 3 \* descriptors per license-info sequence given to the classifier
MainMaxLimit == 2  \* budgets -1 .. MainMaxLimit of the whole run
MainMaxPages == 2  \* non-empty pages of the source of the whole run

---------------------------------------------------------------------------
(* Constants of the program *)

UNKNOWN == "UNKNOWN CC legal tool"

page_size == 100

\* FILE_DOAJ_COUNT, FILE_DOAJ_SUBJECT_REPORT, FILE_DOAJ_LANGUAGE,
\* FILE_DOAJ_YEAR, in the order they are initialized and saved
FileNames ==
    <<"doaj_1_count.csv", "doaj_2_count_by_subject_report.csv",
      "doaj_3_count_by_language.csv", "doaj_4_count_by_year.csv">>

CC_LICENSE_TYPES ==
    <<"CC BY", "CC BY-NC", "CC BY-SA", "CC BY-ND", "CC BY-NC-SA",
      "CC BY-NC-ND", "CC0", UNKNOWN>>

Range(s) == {s[i] : i \in 1..Len(s)}

---------------------------------------------------------------------------
(* Python mappings and counters *)

\* dict.get(key, default)
dict_get(d, key, default) == IF key \in DOMAIN d THEN d[key] ELSE default

\* an empty Counter / defaultdict
EmptyMap == [k \in {} |-> 0]

\* Counter lookup: a missing key reads 0
Count(counter, k) == IF k \in DOMAIN counter THEN counter[k] ELSE 0

\* slip: counter[k] = 1
IncAssigns(counter, k) ==
    IF k \in DOMAIN counter THEN [counter EXCEPT ![k] = 1]
    ELSE counter @@ (k :> 1)

\* counter[k] += 1
Inc(counter, k) ==
    IF k \in DOMAIN counter THEN [counter EXCEPT ![k] = @ + 1]
    ELSE counter @@ (k :> 1)

\* table[c][k] += 1 on a defaultdict(Counter)
Inc2(table, c, k) ==
    IF c \in DOMAIN table THEN [table EXCEPT ![c] = Inc(@, k)]
    ELSE table @@ (c :> (k :> 1))

\* table[c] without creating it
Inner(table, c) == IF c \in DOMAIN table THEN table[c] ELSE EmptyMap

RECURSIVE SumOver(_, _)
SumOver(f, S) ==
    IF S = {} THEN 0
    ELSE LET k == CHOOSE x \in S : TRUE IN f[k] + SumOver(f, S \ {k})

\* sum of a Counter's values
Total(counter) == SumOver(counter, DOMAIN counter)

---------------------------------------------------------------------------
(* Classification *)

\* bibjson.get("license").  None and [] are both falsy and the program only
\* tests the value for truth before iterating, so an absent key reads as the
\* empty sequence; the record itself keeps the two apart (key absent / []).
license_info_of(bibjson) == dict_get(bibjson, "license", <<>>)

\* `not license_info`
NotLicenseInfo(bibjson) == license_info_of(bibjson) = <<>>

\* slip: the last recognized descriptor wins
LastRecognized(license_info, i) ==
    LET hits == {j \in i..Len(license_info) :
                    dict_get(license_info[j], "type", "") \in Range(CC_LICENSE_TYPES)}
    IN  IF hits = {} THEN UNKNOWN
        ELSE license_info[CHOOSE j \in hits : \A k \in hits : k <= j]["type"]

RECURSIVE FirstRecognized(_, _)
FirstRecognized(license_info, i) ==
    IF i > Len(license_info) THEN UNKNOWN
    ELSE LET lic_type == dict_get(license_info[i], "type", "") IN
         IF lic_type \in Range(CC_LICENSE_TYPES) THEN lic_type
         ELSE FirstRecognized(license_info, i + 1)

extract_license_type(license_info) ==
    IF license_info = <<>> THEN UNKNOWN
    ELSE FirstRecognized(license_info, 1)

\* slip: records of unknown license type are not skipped
SkipUnknownNever(bibjson) == FALSE

\* slip: no record is skipped
SkipNothing(bibjson) == FALSE

\* The two `continue` tests of the loop body
SkipUnknown(bibjson) == extract_license_type(license_info_of(bibjson)) = UNKNOWN

SkipJournal(bibjson) == NotLicenseInfo(bibjson) \/ SkipUnknown(bibjson)

---------------------------------------------------------------------------
(* Aggregation *)

isinstance_dict(subject) == "not_a_dict" \notin DOMAIN subject

\* slip: the term is not tested
CodeOnly(code, term) == code # ""

\* `if code and term`
CodeAndTerm(code, term) == code # "" /\ term # ""

RECURSIVE CountSubjects(_, _, _, _)
CountSubjects(sc, license_type, subjects, i) ==
    IF i > Len(subjects) THEN sc
    ELSE LET subject == subjects[i]
             code == dict_get(subject, "code", "")
             term == dict_get(subject, "term", "")
         IN  IF isinstance_dict(subject) /\ CodeAndTerm(code, term)
             THEN CountSubjects(Inc2(sc, license_type, code \o "|" \o term),
                                license_type, subjects, i + 1)
             ELSE CountSubjects(sc, license_type, subjects, i + 1)

\* slip: no "Unknown" bucket
CountYearNoUnknown(yc, license_type, bibjson) ==
    IF "oa_start" \in DOMAIN bibjson /\ bibjson["oa_start"] # 0
    THEN Inc2(yc, license_type, ToString(bibjson["oa_start"]))
    ELSE yc

\* `if oa_start:` for oa_start = bibjson.get("oa_start"): None and 0 are falsy
CountYear(yc, license_type, bibjson) ==
    IF "oa_start" \in DOMAIN bibjson /\ bibjson["oa_start"] # 0
    THEN Inc2(yc, license_type, ToString(bibjson["oa_start"]))
    ELSE Inc2(yc, license_type, "Unknown")

\* slip: a language code is counted once per record
RECURSIVE CountLanguagesOnce(_, _, _, _)
CountLanguagesOnce(lc, license_type, languages, i) ==
    IF i > Len(languages) THEN lc
    ELSE IF \E j \in 1..(i - 1) : languages[j] = languages[i]
         THEN CountLanguagesOnce(lc, license_type, languages, i + 1)
         ELSE CountLanguagesOnce(Inc2(lc, license_type, languages[i]),
                                 license_type, languages, i + 1)

RECURSIVE CountLanguages(_, _, _, _)
CountLanguages(lc, license_type, languages, i) ==
    IF i > Len(languages) THEN lc
    ELSE CountLanguages(Inc2(lc, license_type, languages[i]),
                        license_type, languages, i + 1)

---------------------------------------------------------------------------
(* The records the source can serve *)

SubjectQ == [code |-> "Q", term |-> "Science"]
SubjectH == [code |-> "H", term |-> "Social Sciences"]

\* one recognized license, no other field: subject, oa_start, language default
RecCCBY == [license |-> <<[type |-> "CC BY"]>>]

RecCC0 ==
    [license |-> <<[type |-> "CC0"]>>, subject |-> <<SubjectQ>>,
     oa_start |-> 2001, language |-> <<"EN">>]

\* no "license" key
RecNoLicense ==
    [subject |-> <<SubjectQ>>, oa_start |-> 2001, language |-> <<"EN">>]

\* "license": []
RecEmptyLicense ==
    [license |-> <<>>, subject |-> <<SubjectH>>, language |-> <<"FR">>]

\* license info present, no descriptor of a recognized type
RecOther ==
    [license |-> <<[type |-> "Publisher's own license"], [url |-> "u"]>>,
     subject |-> <<SubjectQ>>, oa_start |-> 2001, language |-> <<"EN">>]

\* a descriptor whose type is the catch-all label itself, before a CC BY one
RecLiteralUnknown ==
    [license |-> <<[type |-> UNKNOWN], [type |-> "CC BY"]>>,
     oa_start |-> 2002]

\* several descriptors; the same subject and the same language twice
RecMixed ==
    [license |-> <<[url |-> "u"], [type |-> "CC BY-SA"], [type |-> "CC BY"]>>,
     subject |-> <<SubjectQ, SubjectQ>>, language |-> <<"EN", "EN">>]

\* subject entries without term, not a mapping, with an empty code;
\* oa_start 0; two languages
RecBadSubject ==
    [license |-> <<[type |-> "CC BY"]>>,
     subject |-> <<[code |-> "Q"], [not_a_dict |-> "Q"],
                   [code |-> "", term |-> "Science"], SubjectH>>,
     oa_start |-> 0, language |-> <<"EN", "FR">>]

Records ==
    {RecCCBY, RecCC0, RecNoLicense, RecEmptyLicense, RecOther,
     RecLiteralUnknown, RecMixed, RecBadSubject}

ScenarioRecords == {RecCCBY, RecCC0, RecNoLicense}

LiveRecords == {RecCCBY, RecNoLicense, RecOther}

\* Loop variable before the first iteration, return value before the return
NoJournal == [unbound |-> TRUE]

NotReturned == [unbound |-> TRUE]

\* no session.get call yet, no provenance mapping yet
NoParams == [unbound |-> TRUE]

NotBuilt == [unbound |-> TRUE]

---------------------------------------------------------------------------
(* Environments: what the source serves and how far histories are kept *)

\* A source of at most MaxPages non-empty pages; no history counter reaches
\* the horizon.
Env ==
    [lastPage |-> MaxPages, maxLen |-> MaxPageLen, records |-> Records,
     horizon |-> (MaxPages + 1) * (MaxPageLen + 1)]

\* The source of the end-to-end scenario's shape: three pages of two records
ScenarioEnv ==
    [lastPage |-> 3, maxLen |-> 2, records |-> ScenarioRecords, horizon |-> 12]

\* A source that never runs out of pages.  The page index and the history
\* counters are kept up to LivePageCap and no longer told apart beyond it:
\* the answer of the source does not depend on them.
LiveEnv ==
    [lastPage |-> LivePageCap, maxLen |-> MaxPageLen, records |-> LiveRecords,
     horizon |-> LivePageCap]

Bump(n, cap) == IF n < cap THEN n + 1 ELSE n

---------------------------------------------------------------------------
(* The end-to-end scenario, as the events the source must produce *)

Scenario ==
    <<"page of 2", "CC BY", "CC BY", "page of 2", "CC0", "no license",
      "page of 1", "CC BY", "page of 0">>

PageEvent(n) == "page of " \o ToString(n)

RecordEvent(bibjson) ==
    IF NotLicenseInfo(bibjson) THEN "no license"
    ELSE extract_license_type(license_info_of(bibjson))

Advance(event) ==
    IF scenario >= 0 /\ scenario < Len(Scenario) /\ Scenario[scenario + 1] = event
    THEN scenario + 1
    ELSE -1

---------------------------------------------------------------------------
(* process_journals *)

\* query_doaj has just called process_journals, in a run without
\* --enable-save that found no count file
InsideQuery ==
    /\ enable_save = FALSE
    /\ files = [f \in Range(FileNames) |-> "absent"]
    /\ provenance_data = NotBuilt
    /\ provenance_file = "absent"
    /\ warnings = 0
    /\ qpc = "process_journals"
    /\ prov_attempts = 0
    /\ write_errors = 0

\* a step of process_journals: the caller waits
Running == qpc = "process_journals" /\ UNCHANGED caller

Locals(limits) ==
    /\ limit \in limits
    /\ license_counts = EmptyMap
    /\ subject_counts = EmptyMap
    /\ language_counts = EmptyMap
    /\ year_counts = EmptyMap
    /\ total_processed = 0
    /\ page = 1
    /\ remaining = 0
    /\ journal = NoJournal
    /\ pc = "while"
    /\ ret = NotReturned
    /\ requests = 0
    /\ delays = 0
    /\ pulled = 0
    /\ seen = [c \in Range(CC_LICENSE_TYPES) |-> 0]
    /\ subject_entries = [c \in Range(CC_LICENSE_TYPES) |-> 0]
    /\ ended = "no"
    /\ scenario = IF limit = 5 THEN 0 ELSE -1
    /\ classified = ""
    /\ last_params = NoParams

\* process_journals entered: query_doaj and process_journals have each
\* logged their first info line
Start(limits) ==
    /\ Locals(limits)
    /\ info_logs = 2
    /\ InsideQuery

\* slip: <= for <
WhileCondInclusive == total_processed <= limit

\* while total_processed < args.limit
WhileCond == total_processed < limit

\* slip: no budget test inside the page
ForBreakNever == FALSE

\* if total_processed >= args.limit: break
ForBreak == total_processed >= limit

\* slip: an empty page does not end the loop
EmptyResultsIgnored(n) == FALSE

\* if not results: break
EmptyResults(n) == n = 0

\* slip: the RequestException is not caught
FetchFailsRaises(E) ==
    /\ pc = "while"
    /\ WhileCond
    /\ Running
    /\ info_logs' = Bump(info_logs, E.horizon + 2)
    /\ last_params' = [pageSize |-> page_size, page |-> page]
    /\ UNCHANGED classified
    /\ requests' = Bump(requests, E.horizon)
    /\ delays' = 0
    /\ ended' = "error"
    /\ pc' = "raised"
    /\ scenario' = -1
    /\ UNCHANGED <<limit, license_counts, subject_counts, language_counts,
                   year_counts, total_processed, page, remaining, journal,
                   ret, pulled, seen, subject_entries>>

\* session.get raises RequestException: log the error, break
FetchFails(E) ==
    /\ pc = "while"
    /\ WhileCond
    /\ Running
    /\ info_logs' = Bump(info_logs, E.horizon + 2)
    /\ last_params' = [pageSize |-> page_size, page |-> page]
    /\ UNCHANGED classified
    /\ requests' = Bump(requests, E.horizon)
    /\ delays' = 0
    /\ ended' = "error"
    /\ pc' = "return"
    /\ scenario' = -1
    /\ UNCHANGED <<limit, license_counts, subject_counts, language_counts,
                   year_counts, total_processed, page, remaining, journal,
                   ret, pulled, seen, subject_entries>>

\* session.get answers with a page of n results
FetchPage(E) ==
    /\ pc = "while"
    /\ WhileCond
    /\ \E n \in 0 .. (IF page <= E.lastPage THEN E.maxLen ELSE 0) :
          /\ scenario' = Advance(PageEvent(n))
          /\ IF EmptyResults(n)
             THEN /\ ended' = "empty"
                  /\ pc' = "return"
                  /\ UNCHANGED remaining
             ELSE /\ remaining' = n
                  /\ pc' = "for"
                  /\ UNCHANGED ended
    /\ Running
    /\ info_logs' = Bump(info_logs, E.horizon + 2)
    /\ last_params' = [pageSize |-> page_size, page |-> page]
    /\ UNCHANGED classified
    /\ requests' = Bump(requests, E.horizon)
    /\ delays' = 0
    /\ UNCHANGED <<limit, license_counts, subject_counts, language_counts,
                   year_counts, total_processed, page, journal, ret, pulled,
                   seen, subject_entries>>

\* history only: subject entries that carry a code and a term
EntriesWithCodeAndTerm(subjects) ==
    Cardinality({i \in 1..Len(subjects) :
        /\ "not_a_dict" \notin DOMAIN subjects[i]
        /\ "code" \in DOMAIN subjects[i] /\ subjects[i]["code"] # ""
        /\ "term" \in DOMAIN subjects[i] /\ subjects[i]["term"] # ""})

\* one iteration of `for journal in results` that passes the budget test
ProcessJournal(E) ==
    /\ pc = "for"
    /\ remaining > 0
    /\ ~ForBreak
    /\ \E bibjson \in E.records :
          /\ journal' = bibjson
          /\ classified' =
                 IF NotLicenseInfo(bibjson) THEN classified
                 ELSE extract_license_type(license_info_of(bibjson))
          /\ scenario' = Advance(RecordEvent(bibjson))
          /\ seen' = IF NotLicenseInfo(bibjson) THEN seen
                     ELSE [seen EXCEPT
                              ![extract_license_type(license_info_of(bibjson))] =
                                  Bump(@, E.horizon)]
          /\ IF SkipJournal(bibjson)
             THEN UNCHANGED <<license_counts, subject_counts, language_counts,
                              year_counts, total_processed, subject_entries>>
             ELSE LET license_type ==
                          extract_license_type(license_info_of(bibjson))
                      subjects == dict_get(bibjson, "subject", <<>>)
                      languages == dict_get(bibjson, "language", <<>>)
                  IN  /\ license_counts' = Inc(license_counts, license_type)
                      /\ subject_counts' =
                             CountSubjects(subject_counts, license_type, subjects, 1)
                      /\ year_counts' = CountYear(year_counts, license_type, bibjson)
                      /\ language_counts' =
                             CountLanguages(language_counts, license_type, languages, 1)
                      /\ total_processed' = total_processed + 1
                      /\ subject_entries' =
                             [subject_entries EXCEPT ![license_type] =
                                 @ + EntriesWithCodeAndTerm(subjects)]
    /\ remaining' = remaining - 1
    /\ pulled' = Bump(pulled, E.horizon)
    /\ Running
    /\ UNCHANGED <<limit, page, pc, ret, requests, delays, ended,
                   last_params, info_logs>>

\* slip: no page += 1
EndOfPageNoAdvance(E) ==
    /\ pc = "for"
    /\ remaining = 0 \/ ForBreak
    /\ delays' = delays + 1
    /\ remaining' = 0
    /\ pc' = "while"
    /\ Running
    /\ UNCHANGED <<classified, last_params, info_logs>>
    /\ UNCHANGED <<limit, license_counts, subject_counts, language_counts,
                   year_counts, total_processed, journal, ret, requests,
                   page, pulled, seen, subject_entries, ended, scenario>>

\* slip: no time.sleep
EndOfPageNoSleep(E) ==
    /\ pc = "for"
    /\ remaining = 0 \/ ForBreak
    /\ page' = Bump(page, E.horizon)
    /\ remaining' = 0
    /\ pc' = "while"
    /\ Running
    /\ UNCHANGED <<classified, last_params, info_logs>>
    /\ UNCHANGED <<limit, license_counts, subject_counts, language_counts,
                   year_counts, total_processed, journal, ret, requests,
                   delays, pulled, seen, subject_entries, ended, scenario>>

\* the for loop is left (page exhausted, or break on the budget test):
\* page += 1; time.sleep(RATE_LIMIT_DELAY)
EndOfPage(E) ==
    /\ pc = "for"
    /\ remaining = 0 \/ ForBreak
    /\ page' = Bump(page, E.horizon)
    /\ delays' = delays + 1
    /\ remaining' = 0
    /\ pc' = "while"
    /\ Running
    /\ UNCHANGED <<classified, last_params, info_logs>>
    /\ UNCHANGED <<limit, license_counts, subject_counts, language_counts,
                   year_counts, total_processed, journal, ret, requests,
                   pulled, seen, subject_entries, ended, scenario>>

\* the while test fails
LeaveLoop ==
    /\ pc = "while"
    /\ ~WhileCond
    /\ ended' = "limit"
    /\ pc' = "return"
    /\ Running
    /\ UNCHANGED <<classified, last_params, info_logs>>
    /\ UNCHANGED <<limit, license_counts, subject_counts, language_counts,
                   year_counts, total_processed, page, remaining, journal,
                   ret, requests, delays, pulled, seen, subject_entries,
                   scenario>>

\* return (license_counts, subject_counts, language_counts, year_counts,
\*         total_processed)
Return ==
    /\ pc = "return"
    /\ ret' = [license_counts |-> license_counts,
               subject_counts |-> subject_counts,
               language_counts |-> language_counts,
               year_counts |-> year_counts,
               total_processed |-> total_processed]
    /\ pc' = "done"
    /\ Running
    /\ UNCHANGED <<classified, last_params, info_logs>>
    /\ UNCHANGED <<limit, license_counts, subject_counts, language_counts,
                   year_counts, total_processed, page, remaining, journal,
                   requests, delays, pulled, seen, subject_entries, ended,
                   scenario>>

Init == Start(-1 .. MaxLimit)

Next ==
    \/ FetchFails(Env)
    \/ FetchPage(Env)
    \/ ProcessJournal(Env)
    \/ EndOfPage(Env)
    \/ LeaveLoop
    \/ Return

Spec == Init /\ [][Next]_vars

\* The scenario's budget against a source of its shape
ScenarioInit == Start({5})

ScenarioNext ==
    \/ FetchFails(ScenarioEnv)
    \/ FetchPage(ScenarioEnv)
    \/ ProcessJournal(ScenarioEnv)
    \/ EndOfPage(ScenarioEnv)
    \/ LeaveLoop
    \/ Return

ScenarioSpec == ScenarioInit /\ [][ScenarioNext]_vars

\* extract_license_type applied to every license-info sequence of at most
\* MaxDescriptors descriptors
Descriptors ==
    {[type |-> "CC BY"], [type |-> "CC0"], [type |-> UNKNOWN],
     [type |-> "Publisher's own license"], [url |-> "u"]}

LicenseInfos == UNION {[1..n -> Descriptors] : n \in 0..MaxDescriptors}

\* license_info = bibjson.get("license"); extract_license_type(license_info)
Classify ==
    /\ \E license_info \in LicenseInfos :
          /\ journal' = [license |-> license_info]
          /\ classified' = extract_license_type(license_info)
    /\ UNCHANGED <<limit, license_counts, subject_counts, language_counts,
                   year_counts, total_processed, page, remaining, pc, ret,
                   requests, delays, pulled, seen, subject_entries, ended,
                   scenario, last_params, info_logs>>
    /\ UNCHANGED caller

ClassifyInit == Start({0})

ClassifyNext == Classify

ClassifySpec == ClassifyInit /\ [][ClassifyNext]_vars

\* The endless source; the single thread always takes its next step
LiveInit == Start(-1 .. LiveMaxLimit)

LiveNext ==
    \/ FetchFails(LiveEnv)
    \/ FetchPage(LiveEnv)
    \/ ProcessJournal(LiveEnv)
    \/ EndOfPage(LiveEnv)
    \/ LeaveLoop
    \/ Return

LiveSpec == LiveInit /\ [][LiveNext]_vars /\ WF_vars(LiveNext)

---------------------------------------------------------------------------
(* main and query_doaj around process_journals *)

\* A count file is "absent", "header" (created with its header row), "old"
\* (header and rows of a completed earlier run), "data" (header and rows of
\* this run) or "partial" (a write that raised part-way).

\* initialize_data_file: write the header if the file does not exist
initialize_data_file(content) == IF content = "absent" THEN "header" ELSE content

\* slip: the early return on not args.enable_save is missing
InitializeAllDataFilesAlways ==
    /\ qpc = "main"
    /\ files' = [f \in Range(FileNames) |-> initialize_data_file(files[f])]
    /\ qpc' = "query"
    /\ UNCHANGED <<enable_save, provenance_data, provenance_file, warnings,
                   prov_attempts, write_errors>>
    /\ UNCHANGED <<limit, license_counts, subject_counts, language_counts,
                   year_counts, total_processed, page, remaining, journal, pc,
                   ret, requests, delays, pulled, seen, subject_entries, ended,
                   scenario, classified, last_params, info_logs>>

\* initialize_all_data_files(args)
InitializeAllDataFiles ==
    /\ qpc = "main"
    /\ files' = IF enable_save
                THEN [f \in Range(FileNames) |-> initialize_data_file(files[f])]
                ELSE files
    /\ qpc' = "query"
    /\ UNCHANGED <<enable_save, provenance_data, provenance_file, warnings,
                   prov_attempts, write_errors>>
    /\ UNCHANGED <<limit, license_counts, subject_counts, language_counts,
                   year_counts, total_processed, page, remaining, journal, pc,
                   ret, requests, delays, pulled, seen, subject_entries, ended,
                   scenario, classified, last_params, info_logs>>

\* initialize_all_data_files(args) raises: os.makedirs fails (k = 1), or
\* creating the k-th file does; the exception leaves main
InitializeFails ==
    /\ qpc = "main"
    /\ enable_save
    /\ \E k \in 1..Len(FileNames) :
          /\ k = 1 \/ files[FileNames[k]] = "absent"
          /\ files' = [f \in Range(FileNames) |->
                          IF \E j \in 1..(k - 1) : FileNames[j] = f
                          THEN initialize_data_file(files[f])
                          ELSE files[f]]
    /\ write_errors' = write_errors + 1
    /\ qpc' = "raised"
    /\ UNCHANGED <<enable_save, provenance_data, provenance_file, warnings,
                   prov_attempts>>
    /\ UNCHANGED <<limit, license_counts, subject_counts, language_counts,
                   year_counts, total_processed, page, remaining, journal, pc,
                   ret, requests, delays, pulled, seen, subject_entries, ended,
                   scenario, classified, last_params, info_logs>>

\* query_doaj: setup_session, the note about articles, process_journals
\* entered and its first log line
EnterQuery ==
    /\ qpc = "query"
    /\ info_logs' = info_logs + 2
    /\ qpc' = "process_journals"
    /\ UNCHANGED <<enable_save, files, provenance_data, provenance_file,
                   warnings, prov_attempts, write_errors>>
    /\ UNCHANGED <<limit, license_counts, subject_counts, language_counts,
                   year_counts, total_processed, page, remaining, journal, pc,
                   ret, requests, delays, pulled, seen, subject_entries, ended,
                   scenario, classified, last_params>>

\* if args.enable_save: save_count_data(...), all four files written
SaveCountData ==
    /\ qpc = "process_journals"
    /\ pc = "done"
    /\ files' = IF enable_save THEN [f \in Range(FileNames) |-> "data"] ELSE files
    /\ qpc' = "provenance"
    /\ UNCHANGED <<enable_save, provenance_data, provenance_file, warnings,
                   prov_attempts, write_errors>>
    /\ UNCHANGED <<limit, license_counts, subject_counts, language_counts,
                   year_counts, total_processed, page, remaining, journal, pc,
                   ret, requests, delays, pulled, seen, subject_entries, ended,
                   scenario, classified, last_params, info_logs>>

\* save_count_data raises on the k-th file (open fails: the file is left as
\* it was; a write fails: the file is left partial); nothing in
\* save_count_data or query_doaj catches it
SaveCountDataFails ==
    /\ qpc = "process_journals"
    /\ pc = "done"
    /\ enable_save
    /\ \E k \in 1..Len(FileNames), left \in {"as it was", "partial"} :
          files' = [f \in Range(FileNames) |->
                       IF \E j \in 1..(k - 1) : FileNames[j] = f THEN "data"
                       ELSE IF f = FileNames[k] /\ left = "partial" THEN "partial"
                       ELSE files[f]]
    /\ write_errors' = write_errors + 1
    /\ qpc' = "raised"
    /\ UNCHANGED <<enable_save, provenance_data, provenance_file, warnings,
                   prov_attempts>>
    /\ UNCHANGED <<limit, license_counts, subject_counts, language_counts,
                   year_counts, total_processed, page, remaining, journal, pc,
                   ret, requests, delays, pulled, seen, subject_entries, ended,
                   scenario, classified, last_params, info_logs>>

\* slip: the number of records pulled is recorded as fetched
BuildProvenancePulled ==
    [total_articles_fetched |-> 0,
     total_journals_fetched |-> pulled,
     total_processed |-> ret.total_processed,
     limit |-> limit]

\* provenance_data, for the keys that vary with the run
BuildProvenance ==
    [total_articles_fetched |-> 0,
     total_journals_fetched |-> ret.total_processed,
     total_processed |-> ret.total_processed,
     limit |-> limit]

\* the provenance file is written
WriteProvenance ==
    /\ qpc = "provenance"
    /\ provenance_data' = BuildProvenance
    /\ provenance_file' = "written"
    /\ prov_attempts' = prov_attempts + 1
    /\ qpc' = "log"
    /\ UNCHANGED <<enable_save, files, warnings, write_errors>>
    /\ UNCHANGED <<limit, license_counts, subject_counts, language_counts,
                   year_counts, total_processed, page, remaining, journal, pc,
                   ret, requests, delays, pulled, seen, subject_entries, ended,
                   scenario, classified, last_params, info_logs>>

\* slip: no try/except around the provenance write
WriteProvenanceFailsRaises ==
    /\ qpc = "provenance"
    /\ provenance_data' = BuildProvenance
    /\ provenance_file' \in {provenance_file, "partial"}
    /\ prov_attempts' = prov_attempts + 1
    /\ write_errors' = write_errors + 1
    /\ qpc' = "raised"
    /\ UNCHANGED <<enable_save, files, warnings>>
    /\ UNCHANGED <<limit, license_counts, subject_counts, language_counts,
                   year_counts, total_processed, page, remaining, journal, pc,
                   ret, requests, delays, pulled, seen, subject_entries, ended,
                   scenario, classified, last_params, info_logs>>

\* the provenance write raises: LOGGER.warning, and query_doaj goes on
WriteProvenanceFails ==
    /\ qpc = "provenance"
    /\ provenance_data' = BuildProvenance
    /\ provenance_file' \in {provenance_file, "partial"}
    /\ prov_attempts' = prov_attempts + 1
    /\ write_errors' = write_errors + 1
    /\ warnings' = warnings + 1
    /\ qpc' = "log"
    /\ UNCHANGED <<enable_save, files>>
    /\ UNCHANGED <<limit, license_counts, subject_counts, language_counts,
                   year_counts, total_processed, page, remaining, journal, pc,
                   ret, requests, delays, pulled, seen, subject_entries, ended,
                   scenario, classified, last_params, info_logs>>

\* the two closing LOGGER.info lines of query_doaj
FinalLog ==
    /\ qpc = "log"
    /\ info_logs' = info_logs + 2
    /\ qpc' = "finished"
    /\ UNCHANGED <<enable_save, files, provenance_data, provenance_file,
                   warnings, prov_attempts, write_errors>>
    /\ UNCHANGED <<limit, license_counts, subject_counts, language_counts,
                   year_counts, total_processed, page, remaining, journal, pc,
                   ret, requests, delays, pulled, seen, subject_entries, ended,
                   scenario, classified, last_params>>

MainRecords == {RecCCBY, RecCC0, RecNoLicense, RecOther}

MainEnv ==
    [lastPage |-> MainMaxPages, maxLen |-> MaxPageLen, records |-> MainRecords,
     horizon |-> (MainMaxPages + 1) * (MaxPageLen + 1)]

\* main after parse_arguments: with or without --enable-save, each count
\* file absent or left by a completed earlier run
MainInit ==
    /\ Locals(-1 .. MainMaxLimit)
    /\ info_logs = 0
    /\ enable_save \in BOOLEAN
    /\ files \in [Range(FileNames) -> {"absent", "old"}]
    /\ provenance_data = NotBuilt
    /\ provenance_file = "absent"
    /\ warnings = 0
    /\ qpc = "main"
    /\ prov_attempts = 0
    /\ write_errors = 0

MainNext ==
    \/ InitializeAllDataFiles
    \/ InitializeFails
    \/ EnterQuery
    \/ FetchFails(MainEnv)
    \/ FetchPage(MainEnv)
    \/ ProcessJournal(MainEnv)
    \/ EndOfPage(MainEnv)
    \/ LeaveLoop
    \/ Return
    \/ SaveCountData
    \/ SaveCountDataFails
    \/ WriteProvenance
    \/ WriteProvenanceFails
    \/ FinalLog

MainSpec == MainInit /\ [][MainNext]_vars

---------------------------------------------------------------------------
(* Properties *)

\* a step that takes one record through the loop body
ProcessStep == pc = "for" /\ pc' = "for" /\ remaining' = remaining - 1

Categories == Range(CC_LICENSE_TYPES)

\* C1: for every budget limit >= 0 the number of records counted,
\* total_processed, never exceeds limit, in every state of the run and in
\* the value process_journals returns.
C1_BudgetRespected ==
    limit >= 0 =>
        /\ total_processed <= limit
        /\ pc = "done" => ret.total_processed <= limit

\* the budget is reached with records of the page still to come
C1_Witness ==
    /\ pc = "for"
    /\ limit >= 1
    /\ total_processed = limit
    /\ remaining > 0

\* license info present, and no descriptor of a specifically recognized type
OnlyUnrecognized(bibjson) ==
    /\ "license" \in DOMAIN bibjson
    /\ bibjson["license"] # <<>>
    /\ \A i \in 1..Len(bibjson["license"]) :
          dict_get(bibjson["license"][i], "type", "") \notin Categories \ {UNKNOWN}

\* C2 as stated: a record with license info but no recognized type is
\* counted once under the catch-all category: license_counts[UNKNOWN] and
\* the year table of UNKNOWN grow by 1, and so does total_processed.
C2_Original ==
    [][(ProcessStep /\ OnlyUnrecognized(journal')) =>
          /\ Count(license_counts', UNKNOWN) = Count(license_counts, UNKNOWN) + 1
          /\ Total(Inner(year_counts', UNKNOWN)) =
                 Total(Inner(year_counts, UNKNOWN)) + 1
          /\ total_processed' = total_processed + 1]_vars

\* C2 amended: a record with license info but no recognized type is skipped:
\* the four tables and total_processed are left as they were.
C2_UnrecognizedSkipped ==
    [][(ProcessStep /\ OnlyUnrecognized(journal')) =>
          UNCHANGED <<tables, total_processed>>]_vars

\* such a record went through the loop body as the first record of the run
C2_Witness ==
    /\ journal # NoJournal
    /\ OnlyUnrecognized(journal)
    /\ pulled = 1
    /\ license_counts = EmptyMap
    /\ total_processed = 0

\* C3: a record whose license info is absent or empty leaves the four tables
\* and total_processed unchanged.
C3_UnlicensedSkipped ==
    [][(ProcessStep /\ NotLicenseInfo(journal')) =>
          UNCHANGED <<tables, total_processed>>]_vars

\* an unlicensed record went through the loop body after a counted one
C3_Witness ==
    /\ journal # NoJournal
    /\ NotLicenseInfo(journal)
    /\ pulled >= 2
    /\ total_processed >= 1

\* C4 as stated: for every category c, license_counts[c] equals the sum of
\* year_counts[c] and both equal the number of qualifying records of
\* category c (license info present, classified c) processed so far.
C4_Original ==
    \A c \in Categories :
        /\ Count(license_counts, c) = Total(Inner(year_counts, c))
        /\ Count(license_counts, c) = seen[c]

\* C4 amended: the equalities hold for every category but the catch-all;
\* for the catch-all both tables stay empty whatever was pulled.
C4_LicenseEqualsYear ==
    \A c \in Categories :
        IF c = UNKNOWN
        THEN Count(license_counts, c) = 0 /\ Total(Inner(year_counts, c)) = 0
        ELSE /\ Count(license_counts, c) = Total(Inner(year_counts, c))
             /\ Count(license_counts, c) = seen[c]

\* records with and without a year were counted, and a catch-all one pulled
C4_Witness ==
    /\ Count(Inner(year_counts, "CC BY"), "Unknown") >= 1
    /\ Count(Inner(year_counts, "CC0"), "2001") >= 1
    /\ seen[UNKNOWN] >= 1

C6_FailSoft ==
    [][/\ (ended = "no" /\ ended' = "error") =>
              /\ UNCHANGED <<tables, total_processed, page>>
              /\ pc' = "return"
       /\ ended = "error" =>
              /\ pc' = "done"
              /\ requests' = requests
              /\ ret' = [license_counts |-> license_counts,
                         subject_counts |-> subject_counts,
                         language_counts |-> language_counts,
                         year_counts |-> year_counts,
                         total_processed |-> total_processed]]_vars

\* the second request failed and the first page's counts were returned
C6_Witness ==
    /\ pc = "done"
    /\ ended = "error"
    /\ requests = 2
    /\ total_processed >= 1
    /\ ret.total_processed = total_processed
    /\ ret.license_counts = license_counts

\* C7 as stated: whatever the source serves, the loop is left and the
\* function returns.
C7_Original == <>(pc = "done")

\* C7 amended: the loop is left unless the source, from some point on,
\* serves non-empty pages of skipped records only.
C7_Terminates ==
    []<>(pc = "done" \/ ~SkipJournal(journal)) => <>(pc = "done")

\* the budget was reached against the endless source
C7_Witness ==
    /\ pc = "done"
    /\ ended = "limit"
    /\ total_processed = limit
    /\ limit >= 1

\* C8 as stated: once the records pulled, counted or not, number limit, no
\* further record is pulled and no further page requested.
C8_Original ==
    [][pulled >= limit => (pulled' = pulled /\ requests' = requests)]_vars

\* C8 amended: once the records counted (total_processed) number limit, no
\* further record is pulled, no further page requested, no table changed.
C8_StopsAtBudget ==
    [][total_processed >= limit =>
          /\ pulled' = pulled
          /\ requests' = requests
          /\ UNCHANGED tables]_vars

\* the budget is reached mid-page after a skipped record
C8_Witness ==
    /\ pc = "for"
    /\ remaining > 0
    /\ limit >= 1
    /\ total_processed = limit
    /\ pulled > total_processed

\* exactly one delay lies between two consecutive requests
OneDelayBetween ==
    (pc = "while" /\ total_processed < limit /\ requests >= 1) => delays = 1

\* C9 as stated: one delay between consecutive requests, none after the last.
C9_Original ==
    /\ OneDelayBetween
    /\ pc = "done" => delays = 0

\* C9 amended: one delay between consecutive requests; none after the last
\* request when it failed or returned an empty page, one when the budget was
\* reached on its page.
C9_Delays ==
    /\ OneDelayBetween
    /\ pc = "done" =>
           delays = IF ended = "limit" /\ requests >= 1 THEN 1 ELSE 0

\* a run of two requests ended on the budget, after a delay
C9_Witness ==
    /\ pc = "done"
    /\ ended = "limit"
    /\ requests = 2
    /\ delays = 1

\* C10: budget 5; page 1 of two CC BY records, page 2 of a CC0 record and a
\* record without license info, page 3 of one CC BY record, page 4 empty:
\* four requests, the run ends on the empty page and returns
\* {CC BY: 3, CC0: 1} and 4.
C10_Scenario ==
    (pc = "done" /\ limit = 5 /\ scenario = Len(Scenario)) =>
        /\ ret.license_counts = ("CC BY" :> 3) @@ ("CC0" :> 1)
        /\ ret.total_processed = 4
        /\ ended = "empty"
        /\ requests = 4
        /\ page = 4

\* the scenario ran to its end
C10_Witness == pc = "done" /\ limit = 5 /\ scenario = Len(Scenario)

\* a step that counts the record it takes through the loop body
CountedStep == ProcessStep /\ total_processed' = total_processed + 1

CategoryOf(bibjson) == extract_license_type(license_info_of(bibjson))

\* a step that takes a record with license info of a recognized type
QualifyingStep ==
    /\ ProcessStep
    /\ "license" \in DOMAIN journal'
    /\ \E i \in 1..Len(journal'["license"]) :
           dict_get(journal'["license"][i], "type", "") \in Categories \ {UNKNOWN}
    /\ CategoryOf(journal') # UNKNOWN

\* the fields of a record as the claims read them
SubjectsOf(bibjson) == IF "subject" \in DOMAIN bibjson THEN bibjson["subject"] ELSE <<>>

LanguagesOf(bibjson) == IF "language" \in DOMAIN bibjson THEN bibjson["language"] ELSE <<>>

WellFormed(subject) ==
    /\ "not_a_dict" \notin DOMAIN subject
    /\ "code" \in DOMAIN subject /\ subject["code"] # ""
    /\ "term" \in DOMAIN subject /\ subject["term"] # ""

\* growth of the total of table[c] over a step
Growth(before, after, c) == Total(Inner(after, c)) - Total(Inner(before, c))

\* C11 as stated: a counted record adds exactly 1 to its license category, 1
\* to the year table, and to the subject and the language table 1 when it has
\* data for the dimension and 0 when it has none.
C11_Original ==
    [][CountedStep =>
         LET c == CategoryOf(journal') IN
         /\ Count(license_counts', c) = Count(license_counts, c) + 1
         /\ Growth(year_counts, year_counts', c) = 1
         /\ Growth(subject_counts, subject_counts', c) =
                IF EntriesWithCodeAndTerm(SubjectsOf(journal')) > 0 THEN 1 ELSE 0
         /\ Growth(language_counts, language_counts', c) =
                IF Len(LanguagesOf(journal')) > 0 THEN 1 ELSE 0]_vars

\* C11 amended: a counted record adds exactly 1 to its license category and
\* 1 to the year table; to the subject table it adds the number of its
\* subject entries with code and term, to the language table the number of
\* its language entries (0 when it has none).
C11_Contribution ==
    [][CountedStep =>
         LET c == CategoryOf(journal') IN
         /\ Count(license_counts', c) = Count(license_counts, c) + 1
         /\ Growth(year_counts, year_counts', c) = 1
         /\ Growth(subject_counts, subject_counts', c) =
                EntriesWithCodeAndTerm(SubjectsOf(journal'))
         /\ Growth(language_counts, language_counts', c) =
                Len(LanguagesOf(journal'))
         /\ \A d \in Categories \ {c} :
                /\ Count(license_counts', d) = Count(license_counts, d)
                /\ Growth(year_counts, year_counts', d) = 0
                /\ Growth(subject_counts, subject_counts', d) = 0
                /\ Growth(language_counts, language_counts', d) = 0]_vars

\* the first counted record had no year, one good subject entry, two languages
C11_Witness ==
    /\ total_processed = 1
    /\ journal = RecBadSubject
    /\ Count(Inner(year_counts, "CC BY"), "Unknown") = 1
    /\ Total(Inner(subject_counts, "CC BY")) = 1
    /\ Total(Inner(language_counts, "CC BY")) = 2

\* C16: for a counted record, subject entries without code, without term or
\* not a mapping add nothing to the subject table, which becomes what the
\* well-formed entries alone make it; license and year still grow by 1 and
\* the language table by the record's language entries; nothing is raised.
C16_BadSubjectSkipped ==
    [][QualifyingStep =>
         LET c == CategoryOf(journal')
             good == SelectSeq(SubjectsOf(journal'), WellFormed)
         IN
         /\ subject_counts' = CountSubjects(subject_counts, c, good, 1)
         /\ Growth(subject_counts, subject_counts', c) = Len(good)
         /\ Count(license_counts', c) = Count(license_counts, c) + 1
         /\ Growth(year_counts, year_counts', c) = 1
         /\ Growth(language_counts, language_counts', c) =
                Len(LanguagesOf(journal'))
         /\ total_processed' = total_processed + 1]_vars

\* a record with three malformed subject entries and one good one was counted
C16_Witness ==
    /\ journal = RecBadSubject
    /\ total_processed = 1
    /\ Inner(subject_counts, "CC BY") = ("H|Social Sciences" :> 1)
    /\ Count(license_counts, "CC BY") = 1
    /\ Inner(language_counts, "CC BY") = ("EN" :> 1) @@ ("FR" :> 1)

\* occurrences of a subject key / a language code in a record
SubjectOccurrences(bibjson, key) ==
    Cardinality({i \in 1..Len(SubjectsOf(bibjson)) :
        /\ WellFormed(SubjectsOf(bibjson)[i])
        /\ SubjectsOf(bibjson)[i]["code"] \o "|" \o SubjectsOf(bibjson)[i]["term"] = key})

SubjectKeys(bibjson) ==
    {SubjectsOf(bibjson)[i]["code"] \o "|" \o SubjectsOf(bibjson)[i]["term"] :
        i \in {j \in 1..Len(SubjectsOf(bibjson)) : WellFormed(SubjectsOf(bibjson)[j])}}

LanguageOccurrences(bibjson, code) ==
    Cardinality({i \in 1..Len(LanguagesOf(bibjson)) : LanguagesOf(bibjson)[i] = code})

\* C17: no deduplication inside a record: a counted record adds to each
\* subject key and to each language code of its category the number of times
\* the record lists it.
C17_PerOccurrence ==
    [][CountedStep =>
         LET c == CategoryOf(journal') IN
         /\ \A key \in DOMAIN Inner(subject_counts', c) \cup SubjectKeys(journal') :
                Count(Inner(subject_counts', c), key) =
                    Count(Inner(subject_counts, c), key)
                        + SubjectOccurrences(journal', key)
         /\ \A code \in DOMAIN Inner(language_counts', c)
                          \cup Range(LanguagesOf(journal')) :
                Count(Inner(language_counts', c), code) =
                    Count(Inner(language_counts, c), code)
                        + LanguageOccurrences(journal', code)]_vars

\* a record listing one subject twice and one language twice was counted
C17_Witness ==
    /\ total_processed = 1
    /\ journal # NoJournal
    /\ SubjectOccurrences(journal, "Q|Science") = 2
    /\ LanguageOccurrences(journal, "EN") = 2
    /\ Count(Inner(subject_counts, CategoryOf(journal)), "Q|Science") = 2
    /\ Count(Inner(language_counts, CategoryOf(journal)), "EN") = 2

\* C18: a page is requested only while total_processed < limit; with
\* limit <= 0 no page is ever requested and the returned tables are empty;
\* once total_processed >= limit (mid-page or at the end of a page) no table
\* changes and no page is requested.
C18_NoRequestAtBudget ==
    [][/\ requests' # requests => total_processed < limit
       /\ total_processed >= limit =>
              /\ UNCHANGED <<tables, total_processed>>
              /\ requests' = requests
       /\ limit <= 0 =>
              /\ requests' = 0
              /\ pc' = "done" =>
                     /\ ret'.license_counts = EmptyMap
                     /\ ret'.subject_counts = EmptyMap
                     /\ ret'.language_counts = EmptyMap
                     /\ ret'.year_counts = EmptyMap
                     /\ ret'.total_processed = 0]_vars

\* the budget was reached on the last record of a page and the run ended
\* without another request
C18_Witness ==
    /\ pc = "done"
    /\ ended = "limit"
    /\ limit >= 1
    /\ total_processed = limit
    /\ requests = 1
    /\ pulled = MaxPageLen

\* type of the i-th descriptor of the classified record, "" when it has none
TypeAt(i) ==
    IF "type" \in DOMAIN journal["license"][i] THEN journal["license"][i]["type"] ELSE ""

\* the descriptors of the classified record whose type is one of the eight labels
InSet == {i \in 1..Len(journal["license"]) : TypeAt(i) \in Categories}

ClassifiedNonEmpty ==
    /\ journal # NoJournal
    /\ "license" \in DOMAIN journal
    /\ journal["license"] # <<>>

\* the result is the type of the first descriptor whose type is in the set,
\* the catch-all when there is none
FirstInSetWins ==
    IF InSet = {} THEN classified = UNKNOWN
    ELSE \E i \in InSet : (\A j \in InSet : i <= j) /\ classified = TypeAt(i)

\* C15 as stated: for a non-empty license-info sequence the result is the
\* type of the first descriptor whose type is in the eight-label set, and it
\* is the catch-all only when no descriptor's type is in the set.
C15_Original ==
    ClassifiedNonEmpty =>
        /\ FirstInSetWins
        /\ classified = UNKNOWN => InSet = {}

\* C15 amended: the result is the type of the first descriptor whose type is
\* in the eight-label set; it is the catch-all only when no descriptor's
\* type is in the set or the first one in the set carries the catch-all
\* label itself (the label is one of the eight).
C15_FirstMatch ==
    ClassifiedNonEmpty =>
        /\ FirstInSetWins
        /\ classified = UNKNOWN =>
               \/ InSet = {}
               \/ \E i \in InSet : (\A j \in InSet : i <= j) /\ TypeAt(i) = UNKNOWN

\* an unrecognized descriptor, then CC0, then CC BY: CC0 is returned
C15_Witness ==
    /\ journal = [license |-> <<[type |-> "Publisher's own license"],
                               [type |-> "CC0"], [type |-> "CC BY"]>>]
    /\ classified = "CC0"

\* C14: the k-th request of a run asks for page k with page size 100, so no
\* page index is asked twice and none is skipped; a failed request is not
\* followed by another; each request comes with exactly one info log event
\* and no other step of the loop logs one.
C14_Sequential ==
    [][/\ requests' # requests =>
              /\ requests' = requests + 1
              /\ last_params' = [pageSize |-> 100, page |-> requests']
              /\ info_logs' = info_logs + 1
       /\ requests' = requests => info_logs' = info_logs
       /\ ended = "error" => requests' = requests]_vars

\* the third request of a run has been made
C14_Witness ==
    /\ requests = 3
    /\ last_params = [pageSize |-> 100, page |-> 3]
    /\ info_logs = 5

---------------------------------------------------------------------------
(* Persistence: main, query_doaj, save_count_data (MainSpec) *)

\* a write to an output file raised in this step
WriteRaised == write_errors' # write_errors

\* query_doaj is about to save the count data / to write the provenance file
AtSave == qpc = "process_journals" /\ pc = "done"
AtProvenance == qpc = "provenance"

\* C12 as stated: every failed write inside query_doaj (count files or
\* provenance file) is logged as a warning and query_doaj goes on
C12_Original ==
    [][WriteRaised /\ (AtSave \/ AtProvenance) =>
           /\ warnings' = warnings + 1
           /\ qpc' # "raised"]_vars

\* C12 (amended): only a failed write of the provenance file is recovered
\* locally: it is logged as one warning, query_doaj goes on to its final log
\* lines and completes.  A failed write of a count file in save_count_data is
\* not caught in query_doaj: no warning is logged, the provenance file is not
\* attempted, the final log lines are not written, and nothing further runs.
C12_ProvenanceOnly ==
    [][/\ WriteRaised /\ AtProvenance =>
              /\ warnings' = warnings + 1
              /\ qpc' = "log"
       /\ WriteRaised /\ AtSave =>
              /\ warnings' = warnings
              /\ qpc' = "raised"
              /\ prov_attempts' = prov_attempts
              /\ provenance_file' = provenance_file
              /\ info_logs' = info_logs
       /\ qpc = "log" => qpc' = "finished" /\ info_logs' = info_logs + 2
       /\ qpc # "raised"]_vars

\* the provenance write failed, was logged, and query_doaj completed
C12_Witness ==
    /\ qpc = "finished"
    /\ write_errors = 1
    /\ warnings = 1
    /\ provenance_file # "written"

RunOver == qpc \in {"finished", "raised"}

\* total_processed is the sum of license_counts, and so are the values of a
\* built provenance record
SumsAgree ==
    /\ total_processed = Total(license_counts)
    /\ provenance_data # NotBuilt =>
           /\ provenance_data.total_journals_fetched = Total(license_counts)
           /\ provenance_data.total_processed = Total(license_counts)

\* C19 as stated: the sums agree and every run attempts the provenance write
\* exactly once
C19_Original ==
    /\ SumsAgree
    /\ RunOver => prov_attempts = 1

\* C19 (amended): total_processed equals the sum of license_counts in every
\* state, the provenance record's total_journals_fetched and total_processed
\* equal that sum, also after a transport failure or an empty page.  The
\* provenance write is attempted at most once per run: exactly once in every
\* run in which query_doaj completes (always so with persistence disabled),
\* and not at all in a run that a failed count-file write ended.
C19_SumAndProvenance ==
    /\ SumsAgree
    /\ prov_attempts <= 1
    /\ qpc = "finished" => prov_attempts = 1
    /\ qpc = "raised" => prov_attempts = 0 /\ enable_save
    /\ RunOver /\ ~enable_save => prov_attempts = 1

\* a transport failure ended the loop after a counted record, and the
\* provenance record carries the partial total
C19_Witness ==
    /\ qpc = "finished"
    /\ ended = "error"
    /\ prov_attempts = 1
    /\ provenance_data # NotBuilt
    /\ provenance_data.total_processed >= 1
    /\ pulled > total_processed

===========================================================================
